---- MODULE Spec2Model ----
(***************************************************************************)
(* ZeroSh (src/src/shell.rs): a job-control shell made of three threads.   *)
(*   - the main thread (Shell::run) reads lines and hands them to the      *)
(*     worker over an unbounded channel, then waits on a zero-capacity     *)
(*     channel for Continue/Quit;                                          *)
(*   - the signal thread forwards SIGINT/SIGTSTP/SIGCHLD to the worker;    *)
(*   - the worker thread (Worker) parses lines, runs built-ins, forks      *)
(*     children and keeps the job / group / process tables.                *)
(* The operating system is modelled by os_procs (the shell's children),    *)
(* tty_fg (the terminal's foreground group) and sig_pending.               *)
(***************************************************************************)
EXTENDS Integers, Sequences, FiniteSets, TLC

\* ---------------------------------------------------------------- bounds
MaxLines == 2      \* lines the user types in one run
MaxPid   == 2      \* process ids the system hands out: 1..MaxPid
MaxQueue == 1      \* messages waiting in the worker's channel
MaxJobId == 3      \* job ids searched by get_new_job_id: 0..MaxJobId

\* ---------------------------------------------------------------- values
None      == -1    \* Option::None of fg / lookups
ShellPgid == 0     \* Worker.shell_pgid, the group tcgetpgrp returned

Pids == 1..MaxPid

EmptyMap == [x \in {} |-> 0]

MapPut(f, k, v) == [x \in DOMAIN f \cup {k} |-> IF x = k THEN v ELSE f[x]]
MapDel(f, k)    == [x \in DOMAIN f \ {k} |-> f[x]]

\* The lines the user may type, as the words and '|' separators they hold.
Lines ==
  { <<"echo", "hi">>,
    <<"echo", "hi", "|", "cat">>,
    <<"echo", "hello", "|", "less", "|", "cat">>,
    <<"fg", "0">>,
    <<"fg", "7">>,
    <<"fg", "x", "0">>,
    <<"exit">>,
    <<"exit", "5">>,
    <<"exit", "x">>,
    <<"exit", "x", "5">>,
    <<"exit", "x", "y">>,
    <<"exit", "|", "cat">>,
    <<"|">> }

\* str::parse::<i32>() and str::parse::<usize>() on the words used above:
\* the result, or None when the word is not a number.
ParseI32(word) ==
  CASE word = "0" -> 0
    [] word = "5" -> 5
    [] word = "7" -> 7
    [] OTHER -> None

ParseUsize(word) == ParseI32(word)

\* line.split('|'): the segments between separators (one more than the
\* number of separators), each already split into words.
RECURSIVE SplitBar(_)
SplitBar(toks) ==
  IF toks = <<>> THEN << <<>> >>
  ELSE LET rest == SplitBar(Tail(toks))
       IN  IF Head(toks) = "|"
           THEN << <<>> >> \o rest
           ELSE << <<Head(toks)>> \o Head(rest) >> \o Tail(rest)

\* parse_cmd: a segment without a first word is skipped; the words after the
\* command name are the arguments (the name itself is not among them).
parse_cmd(line) ==
  LET segs == SelectSeq(SplitBar(line), LAMBDA s : s # <<>>)
  IN  [i \in 1..Len(segs) |-> [cmd |-> Head(segs[i]), args |-> Tail(segs[i])]]

\* ------------------------------------------------------------- messages
CmdMsg(line) == [type |-> "Cmd", line |-> line, sig |-> ""]
SigMsg(s)    == [type |-> "Signal", line |-> <<>>, sig |-> s]
Continue(n)  == [type |-> "Continue", n |-> n]
Quit(n)      == [type |-> "Quit", n |-> n]

VARIABLES
  exit_val,      \* Worker.exit_val
  fg,            \* Worker.fg: a pgid or None
  jobs,          \* Worker.jobs: job id -> [pgid, line]
  pgid_to_pids,  \* Worker.pgid_to_pids: pgid -> [job, pids]
  pid_to_info,   \* Worker.pid_to_info: pid -> [state, pgid]
  tty_fg,        \* the terminal's foreground process group
  os_procs,      \* children of the shell: pid -> [st, pend, code, pgid]
  sig_pending,   \* signals raised and not yet forwarded by the signal thread
  worker_q,      \* worker_rx: the messages sent to the worker
  worker_pc,     \* where the worker thread is: recv, send, spawn, reap, dead
  out_msg,       \* the ShellMsg the worker is blocked sending
  cont,          \* where the worker goes on after that send
  cur,           \* the line the worker is handling
  panic,         \* why the worker thread panicked ("" while it lives)
  shell_pc,      \* where the main thread is: read, wait, wait_eof, done, panicked
  prev,          \* Shell::run's prev
  shell_exit,    \* the status the program exits with
  nlines,        \* lines typed so far
  auths,         \* ShellMsg sends started since the worker took its last line
  pre,           \* the tables as they were when the worker took that line
  ev             \* the worker's last step

vars == << exit_val, fg, jobs, pgid_to_pids, pid_to_info, tty_fg, os_procs,
           sig_pending, worker_q, worker_pc, out_msg, cont, cur, panic,
           shell_pc, prev, shell_exit, nlines, auths, pre, ev >>

\* ------------------------------------------------------- the worker's tables
\* The Worker struct as one value, so that its methods are operators.
Self == [exit_val |-> exit_val, fg |-> fg, jobs |-> jobs,
         pgid_to_pids |-> pgid_to_pids, pid_to_info |-> pid_to_info]

Tables(w) == [jobs |-> w.jobs, pgid_to_pids |-> w.pgid_to_pids,
              pid_to_info |-> w.pid_to_info, fg |-> w.fg]

\* What a method leaves behind: the Worker, the terminal's foreground group,
\* the ShellMsg it sends (none or one) and the panic that ended it ("" if none).
Res(w, tty, send, why) == [w |-> w, tty |-> tty, send |-> send, panic |-> why]

\* get_new_job_id with the table as its argument: jobs.len() instead of the
\* first unused id.
get_new_job_id_len(js) == Cardinality(DOMAIN js)

\* get_new_job_id: the first i of 0..=usize::MAX that is no key of jobs.
get_new_job_id(js) ==
  IF \E i \in 0..MaxJobId : i \notin DOMAIN js
  THEN CHOOSE i \in 0..MaxJobId :
         /\ i \notin DOMAIN js
         /\ \A k \in 0..(i - 1) : k \in DOMAIN js
  ELSE None

\* The loop of insert_job over pids, in the order ord: each pid must have no
\* record yet (assert), then gets one.
RECURSIVE InsertPids(_, _, _)
InsertPids(info, ord, pgid) ==
  IF ord = <<>> THEN [info |-> info, ok |-> TRUE]
  ELSE IF Head(ord) \in DOMAIN info THEN [info |-> info, ok |-> FALSE]
  ELSE InsertPids(MapPut(info, Head(ord), [state |-> "Run", pgid |-> pgid]),
                  Tail(ord), pgid)

\* insert_job: the job, then the process records, then the group; a failed
\* assert! leaves what was inserted before it.
insert_job(w, job_id, pgid, ord, line) ==
  IF job_id \in DOMAIN w.jobs THEN [w |-> w, ok |-> FALSE]
  ELSE LET w1 == [w EXCEPT !.jobs = MapPut(@, job_id, [pgid |-> pgid, line |-> line])]
           r  == InsertPids(w1.pid_to_info, ord, pgid)
           w2 == [w1 EXCEPT !.pid_to_info = r.info]
       IN  IF ~r.ok THEN [w |-> w2, ok |-> FALSE]
           ELSE IF pgid \in DOMAIN w2.pid_to_info THEN [w |-> w2, ok |-> FALSE]
           ELSE [w |-> [w2 EXCEPT !.pgid_to_pids =
                           MapPut(@, pgid, [job |-> job_id,
                                            pids |-> {ord[i] : i \in 1..Len(ord)}])],
                 ok |-> TRUE]

\* set_pid_state: no effect on a pid without a record.
set_pid_state(w, pid, state) ==
  IF pid \in DOMAIN w.pid_to_info
  THEN [w EXCEPT !.pid_to_info[pid].state = state]
  ELSE w

\* remove_pid: takes pid out of its group's member set; the result is the
\* Worker and (job, pgid), or None for job when a lookup found nothing.
remove_pid(w, pid) ==
  IF pid \notin DOMAIN w.pid_to_info THEN [w |-> w, job |-> None, pgid |-> None]
  ELSE LET pgid == w.pid_to_info[pid].pgid
       IN  IF pgid \notin DOMAIN w.pgid_to_pids
           THEN [w |-> w, job |-> None, pgid |-> None]
           ELSE [w |-> [w EXCEPT !.pgid_to_pids[pgid].pids = @ \ {pid}],
                 job |-> w.pgid_to_pids[pgid].job, pgid |-> pgid]

is_group_empty(w, pgid) == w.pgid_to_pids[pgid].pids = {}

\* is_group_stop: no member's record says Run (each member's record is
\* unwrapped: see manage_job for the member without one).
is_group_stop(w, pgid) ==
  \A pid \in w.pgid_to_pids[pgid].pids : w.pid_to_info[pid].state # "Run"

\* remove_job: the job and its group; the group must be empty (assert).
remove_job(w, job_id) ==
  IF job_id \notin DOMAIN w.jobs THEN [w |-> w, ok |-> TRUE]
  ELSE LET pgid == w.jobs[job_id].pgid
           w1   == [w EXCEPT !.jobs = MapDel(@, job_id)]
       IN  IF pgid \notin DOMAIN w.pgid_to_pids THEN [w |-> w1, ok |-> TRUE]
           ELSE [w  |-> [w1 EXCEPT !.pgid_to_pids = MapDel(@, pgid)],
                 ok |-> w.pgid_to_pids[pgid].pids = {}]

\* set_shell_fg: foreground back to the shell, and Continue(exit_val).
set_shell_fg(w) ==
  Res([w EXCEPT !.fg = None], ShellPgid, << Continue(w.exit_val) >>, "")

\* manage_job(job_id, pgid), run with the terminal's foreground group at tty.
manage_job(w, job_id, pgid, tty) ==
  IF job_id \notin DOMAIN w.jobs THEN Res(w, tty, <<>>, "manage_job: no job")
  ELSE IF pgid \notin DOMAIN w.pgid_to_pids THEN Res(w, tty, <<>>, "manage_job: no group")
  ELSE IF w.fg = pgid
       THEN IF is_group_empty(w, pgid)
            THEN LET r == remove_job(w, job_id)
                 IN  IF r.ok THEN set_shell_fg(r.w)
                     ELSE Res(r.w, tty, <<>>, "remove_job: assert")
            ELSE IF \E pid \in w.pgid_to_pids[pgid].pids : pid \notin DOMAIN w.pid_to_info
                 THEN Res(w, tty, <<>>, "is_group_stop: no record")
            ELSE IF is_group_stop(w, pgid) THEN set_shell_fg(w)
            ELSE Res(w, tty, <<>>, "")
       ELSE IF is_group_empty(w, pgid)
            THEN LET r == remove_job(w, job_id)
                 IN  Res(r.w, tty, <<>>, IF r.ok THEN "" ELSE "remove_job: assert")
            ELSE Res(w, tty, <<>>, "")

\* process_term: remove_pid, then manage_job if the pid was a member.
process_term(w, pid, tty) ==
  LET r == remove_pid(w, pid)
  IN  IF r.job = None THEN Res(w, tty, <<>>, "")
      ELSE manage_job(r.w, r.job, r.pgid, tty)

\* process_stop: set_pid_state, then the two unwrapped lookups, then manage_job.
process_stop(w, pid, tty) ==
  LET w1 == set_pid_state(w, pid, "Stop")
  IN  IF pid \notin DOMAIN w1.pid_to_info THEN Res(w1, tty, <<>>, "process_stop: no record")
      ELSE LET pgid == w1.pid_to_info[pid].pgid
           IN  IF pgid \notin DOMAIN w1.pgid_to_pids
               THEN Res(w1, tty, <<>>, "process_stop: no group")
               ELSE manage_job(w1, w1.pgid_to_pids[pgid].job, pgid, tty)

\* process_continue
process_continue(w, pid, tty) == Res(set_pid_state(w, pid, "Run"), tty, <<>>, "")

\* run_exit: refuses while a job is tracked; otherwise Quit with args[1]
\* parsed as i32, or with exit_val when there is no args[1].
run_exit(w, args, tty) ==
  IF DOMAIN w.jobs # {}
  THEN Res([w EXCEPT !.exit_val = 1], tty, << Continue(1) >>, "")
  ELSE IF Len(args) >= 2
       THEN IF ParseI32(args[2]) # None
            THEN Res(w, tty, << Quit(ParseI32(args[2])) >>, "")
            ELSE Res([w EXCEPT !.exit_val = 1], tty, << Continue(1) >>, "")
       ELSE Res(w, tty, << Quit(w.exit_val) >>, "")

\* ------------------------------------------------------- the operating system
NewProc(pgid) == [st |-> "run", pend |-> "none", code |-> 0, pgid |-> pgid]

\* fork_exec(pgid, ..) when fork succeeds with the new pid child: the child
\* is put in group pgid, or in a group of its own when pgid is 0.
fork_exec(procs, child, pgid) ==
  MapPut(procs, child, NewProc(IF pgid = 0 THEN child ELSE pgid))

\* The pids fork may return: no pid or group id of a child not yet reaped.
FreePids(procs) ==
  Pids \ (DOMAIN procs \cup {procs[p].pgid : p \in DOMAIN procs})

GroupExists(procs, pgid) == \E p \in DOMAIN procs : procs[p].pgid = pgid

\* killpg(pgid, SIGCONT): every stopped member runs again and has a
\* "continued" status to report.
killpg_cont(procs, pgid) ==
  [p \in DOMAIN procs |->
     IF procs[p].pgid = pgid /\ procs[p].st = "stop"
     THEN [procs[p] EXCEPT !.st = "run", !.pend = "continued"]
     ELSE procs[p]]

\* run_fg: its effect on the Worker, the terminal and the children, the
\* message it sends and the value it returns (ret).
run_fg(w, args, tty, procs) ==
  LET w1   == [w EXCEPT !.exit_val = 1]
      Out(r, ret, pr) == [res |-> r, ret |-> ret, procs |-> pr]
  IN  IF Len(args) < 2
      THEN Out(Res(w1, tty, << Continue(1) >>, ""), FALSE, procs)
      ELSE IF ParseUsize(args[2]) # None /\ ParseUsize(args[2]) \in DOMAIN w1.jobs
           THEN LET pgid == w1.jobs[ParseUsize(args[2])].pgid
                    w2   == [w1 EXCEPT !.fg = pgid]
                IN  IF ~GroupExists(procs, pgid)
                    THEN Out(Res(w2, tty, <<>>, "run_fg: tcsetpgrp"), TRUE, procs)
                    ELSE Out(Res(w2, pgid, <<>>, ""), TRUE, killpg_cont(procs, pgid))
           ELSE Out(Res(w1, tty, << Continue(1) >>, ""), TRUE, procs)

\* The pipe of a 2-stage line as the worker holds it: whether pipe() was
\* called, and how many times the worker has closed each end.
NoPipe == [made |-> FALSE, rd |-> 0, wr |-> 0]
pipe == [made |-> TRUE, rd |-> 0, wr |-> 0]

\* The closure with the close of output left out.
cleanup_pipe_input(p) ==
  IF p.made THEN [p EXCEPT !.rd = @ + 1] ELSE p

\* The closure of cleanup_pipe, run when the CleanUp value is dropped: closes
\* input and output, each if it is Some.
cleanup_pipe(p) ==
  IF p.made THEN [p EXCEPT !.rd = @ + 1, !.wr = @ + 1] ELSE p

\* After fork the parent calls setpgid(child, pgid) and the child calls
\* setpgid(0, pgid) and then execvp: the orders in which the three calls can
\* happen.
ForkSteps == {"parent setpgid", "child setpgid", "child execvp"}

Pos(o, step) == CHOOSE i \in DOMAIN o : o[i] = step

ForkOrders ==
  {o \in [1..Cardinality(ForkSteps) -> ForkSteps] :
     /\ \A step \in ForkSteps : \E i \in DOMAIN o : o[i] = step
     /\ Pos(o, "child setpgid") < Pos(o, "child execvp")}

\* The parent's setpgid(child, pgid): EACCES once the child has executed
\* its program.
parent_setpgid(o) ==
  IF Pos(o, "child execvp") < Pos(o, "parent setpgid") THEN "EACCES" ELSE "ok"

\* spawn_child's limit with three stages allowed instead of two.
TooManyStages3(cmd) == Len(cmd) > 3

\* spawn_child's limit: a line of more than two stages is not supported.
TooManyStages(cmd) == Len(cmd) > 2

\* spawn_child(line, cmd): every way it can end. ret is "true", "false" or
\* "panic" (why tells which unwrap or assertion); forked are the children it
\* created; fork may fail at each stage, each fork_exec runs in one of the
\* ForkOrders (order is the one that made the parent's setpgid fail), and
\* insert_job visits the pids in either order. The pipe is closed by the
\* drop of cleanup_pipe: at line 304, at an early return, or while a panic
\* in fork_exec unwinds.
SpawnOutcomes(w, procs, tty, line, cmd) ==
  LET job_id == get_new_job_id(w.jobs)
      free   == FreePids(procs)
      p0     == IF Len(cmd) = 2 THEN pipe ELSE NoPipe
      End(w1, t1, pr, ret, why, forked, pgid, pp, o) ==
        [w |-> w1, tty |-> t1, procs |-> pr, ret |-> ret, why |-> why,
         forked |-> forked, job |-> job_id, pgid |-> pgid, pipe |-> pp,
         order |-> o]
      Launch(p1, ord, pr) ==
        LET r == insert_job([w EXCEPT !.fg = p1], job_id, p1, ord, line)
            ps == {ord[i] : i \in 1..Len(ord)}
        IN  IF r.ok THEN End(r.w, p1, pr, "true", "", ps, p1, cleanup_pipe(p0), <<>>)
            ELSE End(r.w, tty, pr, "panic", "insert_job: assert", ps, p1,
                     cleanup_pipe(p0), <<>>)
      Eacces(pr, ps, p1, o) ==
        End(w, tty, pr, "panic", "fork_exec: setpgid", ps, p1, cleanup_pipe(p0), o)
      Stage2(p1, pr1) ==
        {End(w, tty, pr1, "false", "", {p1}, p1, cleanup_pipe(p0), <<>>)}
        \cup
        UNION { UNION {
                  IF parent_setpgid(o) = "EACCES"
                  THEN {Eacces(fork_exec(pr1, p2, p1), {p1, p2}, p1, o)}
                  ELSE {Launch(p1, ord, fork_exec(pr1, p2, p1)) :
                          ord \in {<<p1, p2>>, <<p2, p1>>}}
                  : o \in ForkOrders }
                : p2 \in free \ {p1} }
      Stage1(p1) ==
        LET pr1 == fork_exec(procs, p1, 0)
        IN  UNION { IF parent_setpgid(o) = "EACCES"
                    THEN {Eacces(pr1, {p1}, p1, o)}
                    ELSE IF Len(cmd) = 2 THEN Stage2(p1, pr1)
                    ELSE {Launch(p1, <<p1>>, pr1)}
                    : o \in ForkOrders }
  IN  IF Len(cmd) = 0
      THEN {End(w, tty, procs, "panic", "spawn_child: assert_ne", {}, None, NoPipe, <<>>)}
      ELSE IF job_id = None \/ TooManyStages(cmd)
      THEN {End(w, tty, procs, "false", "", {}, None, NoPipe, <<>>)}
      ELSE {End(w, tty, procs, "false", "", {}, None, cleanup_pipe(p0), <<>>)}
           \cup UNION {Stage1(p1) : p1 \in free}

\* ------------------------------------------------------------------- state
NoMsg == [type |-> "", n |-> 0]
NoLine == <<>>

\* A worker step: the operation, its line, how it ended, the pids it forked
\* or was told about, and the job and group concerned; for spawn_child also
\* what became of its pipe and the order of calls that failed a setpgid.
Ev(op, line, ret, pids, job, pgid) ==
  [op |-> op, line |-> line, ret |-> ret, pids |-> pids, job |-> job, pgid |-> pgid,
   code |-> 0, wasfg |-> FALSE, members |-> {}, pipe |-> NoPipe, order |-> <<>>]

\* wait_child being told status k of child p: with p's group and job as the
\* tables had them before, the group's members then, and whether it was the
\* foreground group.
EvWait(k, p) ==
  LET g == IF p \in DOMAIN pid_to_info THEN pid_to_info[p].pgid ELSE None
      tracked == g \in DOMAIN pgid_to_pids
  IN  [op |-> "wait_child", line |-> NoLine, ret |-> k, pids |-> {p},
       job |-> IF tracked THEN pgid_to_pids[g].job ELSE None,
       pgid |-> g,
       code |-> os_procs[p].code,
       wasfg |-> (tracked /\ fg = g),
       members |-> IF tracked THEN pgid_to_pids[g].pids ELSE {},
       pipe |-> NoPipe, order |-> <<>>]

\* Worker::new, Shell::run up to its loop.
Init ==
  /\ exit_val = 0
  /\ fg = None
  /\ jobs = EmptyMap
  /\ pgid_to_pids = EmptyMap
  /\ pid_to_info = EmptyMap
  /\ tty_fg = ShellPgid
  /\ os_procs = EmptyMap
  /\ sig_pending = {}
  /\ worker_q = <<>>
  /\ worker_pc = "recv"
  /\ out_msg = NoMsg
  /\ cont = "recv"
  /\ cur = NoLine
  /\ panic = ""
  /\ shell_pc = "read"
  /\ prev = 0
  /\ shell_exit = None
  /\ nlines = 0
  /\ auths = 0
  /\ pre = [jobs |-> EmptyMap, pgid_to_pids |-> EmptyMap, pid_to_info |-> EmptyMap,
            fg |-> None]
  /\ ev = Ev("new", NoLine, "", {}, None, None)

\* The process runs until the main thread exits or panics.
Alive == shell_pc \notin {"done", "panicked"}

WorkerVars == << exit_val, fg, jobs, pgid_to_pids, pid_to_info >>
ShellVars  == << shell_pc, prev, shell_exit, nlines >>

\* The worker's fields become w.
WorkerSet(w) ==
  /\ exit_val' = w.exit_val
  /\ fg' = w.fg
  /\ jobs' = w.jobs
  /\ pgid_to_pids' = w.pgid_to_pids
  /\ pid_to_info' = w.pid_to_info

\* The end of a worker step that left r: the thread is dead after a panic,
\* blocked in shell_tx.send when r sends (going on at next afterwards), and
\* at next otherwise. a counts the sends started before for this line.
Finish(r, next, a) ==
  /\ WorkerSet(r.w)
  /\ tty_fg' = r.tty
  /\ IF r.panic # ""
     THEN /\ worker_pc' = "dead"
          /\ panic' = r.panic
          /\ out_msg' = NoMsg
          /\ cont' = "recv"
          /\ auths' = a
     ELSE IF r.send # <<>>
     THEN /\ worker_pc' = "send"
          /\ out_msg' = r.send[1]
          /\ cont' = next
          /\ auths' = a + 1
          /\ panic' = panic
     ELSE /\ worker_pc' = next
          /\ out_msg' = NoMsg
          /\ cont' = "recv"
          /\ auths' = a
          /\ panic' = panic

\* ------------------------------------------------------------ the main thread
\* Shell::run reads a non-empty line and sends it to the worker; the send
\* fails (unwrap panics) once the worker thread is gone.
ShellSubmit ==
  /\ Alive /\ shell_pc = "read" /\ nlines < MaxLines
  /\ \E line \in Lines :
       IF worker_pc = "dead"
       THEN /\ shell_pc' = "panicked"
            /\ shell_exit' = 101
            /\ UNCHANGED worker_q
       ELSE /\ Len(worker_q) < MaxQueue
            /\ worker_q' = Append(worker_q, CmdMsg(line))
            /\ shell_pc' = "wait"
            /\ UNCHANGED shell_exit
  /\ nlines' = nlines + 1
  /\ UNCHANGED << WorkerVars, tty_fg, os_procs, sig_pending, worker_pc, out_msg,
                  cont, cur, panic, prev, auths, pre, ev >>

\* End of input: Shell::run sends "exit" and accepts only Quit.
ShellEof ==
  /\ Alive /\ shell_pc = "read" /\ nlines < MaxLines
  /\ IF worker_pc = "dead"
     THEN /\ shell_pc' = "panicked"
          /\ shell_exit' = 101
          /\ UNCHANGED worker_q
     ELSE /\ Len(worker_q) < MaxQueue
          /\ worker_q' = Append(worker_q, CmdMsg(<<"exit">>))
          /\ shell_pc' = "wait_eof"
          /\ UNCHANGED shell_exit
  /\ nlines' = nlines + 1
  /\ UNCHANGED << WorkerVars, tty_fg, os_procs, sig_pending, worker_pc, out_msg,
                  cont, cur, panic, prev, auths, pre, ev >>

\* The zero-capacity channel: shell_tx.send and shell_rx.recv meet. The
\* worker goes on where it was heading; the main thread takes the message.
Rendezvous ==
  /\ Alive /\ worker_pc = "send" /\ shell_pc \in {"wait", "wait_eof"}
  /\ worker_pc' = cont
  /\ out_msg' = NoMsg
  /\ cont' = "recv"
  /\ IF out_msg.type = "Quit"
     THEN /\ shell_pc' = "done"
          /\ shell_exit' = out_msg.n
          /\ UNCHANGED prev
     ELSE IF shell_pc = "wait"
     THEN /\ shell_pc' = "read"
          /\ prev' = out_msg.n
          /\ UNCHANGED shell_exit
     ELSE /\ shell_pc' = "panicked"
          /\ shell_exit' = 101
          /\ UNCHANGED prev
  /\ UNCHANGED << WorkerVars, tty_fg, os_procs, sig_pending, worker_q, cur, panic,
                  nlines, auths, pre, ev >>

\* shell_rx.recv() fails once the worker thread has dropped shell_tx.
ShellDisconnected ==
  /\ Alive /\ worker_pc = "dead" /\ shell_pc \in {"wait", "wait_eof"}
  /\ shell_pc' = "panicked"
  /\ shell_exit' = 101
  /\ UNCHANGED << WorkerVars, tty_fg, os_procs, sig_pending, worker_q, worker_pc,
                  out_msg, cont, cur, panic, prev, nlines, auths, pre, ev >>

\* ---------------------------------------------------------- the signal thread
\* spawn_sig_handler: a pending signal is sent on to the worker.
SigForward ==
  /\ Alive /\ sig_pending # {}
  /\ \E s \in sig_pending :
       /\ sig_pending' = sig_pending \ {s}
       /\ IF worker_pc = "dead"
          THEN UNCHANGED worker_q
          ELSE /\ Len(worker_q) < MaxQueue
               /\ worker_q' = Append(worker_q, SigMsg(s))
  /\ UNCHANGED << WorkerVars, tty_fg, os_procs, worker_pc, out_msg, cont, cur,
                  panic, ShellVars, auths, pre, ev >>

\* SIGINT reaches the shell (it is the terminal's foreground group) and the
\* signal thread sends it on to the worker.
UserInterrupt ==
  /\ Alive /\ tty_fg = ShellPgid /\ worker_pc # "dead"
  /\ Len(worker_q) < MaxQueue
  /\ worker_q' = Append(worker_q, SigMsg("SIGINT"))
  /\ UNCHANGED << WorkerVars, tty_fg, os_procs, sig_pending, worker_pc, out_msg, cont,
                  cur, panic, ShellVars, auths, pre, ev >>

\* ------------------------------------------------------------- the children
ChildChange(p, st, pend, code) ==
  /\ os_procs' = [os_procs EXCEPT ![p] = [@ EXCEPT !.st = st, !.pend = pend, !.code = code]]
  /\ sig_pending' = sig_pending \cup {"SIGCHLD"}
  /\ UNCHANGED << WorkerVars, tty_fg, worker_q, worker_pc, out_msg, cont, cur,
                  panic, ShellVars, auths, pre, ev >>

\* A running child exits with status 0 or 1.
ChildExit ==
  /\ Alive
  /\ \E p \in DOMAIN os_procs, code \in {0, 1} :
       /\ os_procs[p].st = "run"
       /\ ChildChange(p, "zombie", "exited", code)

\* A child is killed by a signal.
ChildKilled ==
  /\ Alive
  /\ \E p \in DOMAIN os_procs :
       /\ os_procs[p].st \in {"run", "stop"}
       /\ ChildChange(p, "zombie", "signaled", 0)

\* A running child is stopped (SIGTSTP, SIGSTOP, SIGTTIN).
ChildStop ==
  /\ Alive
  /\ \E p \in DOMAIN os_procs :
       /\ os_procs[p].st = "run"
       /\ ChildChange(p, "stop", "stopped", 0)

\* A stopped child is continued from outside the shell (kill -CONT).
ChildContinue ==
  /\ Alive
  /\ \E p \in DOMAIN os_procs :
       /\ os_procs[p].st = "stop"
       /\ ChildChange(p, "run", "continued", 0)

\* ---------------------------------------------------------------- the worker
\* spawn_child and, when it returns false, Worker::spawn's Continue(exit_val).
SpawnChild(line, cmd, a) ==
  \E o \in SpawnOutcomes(Self, os_procs, tty_fg, line, cmd) :
    /\ os_procs' = o.procs
    /\ Finish(Res(o.w, o.tty,
                  IF o.ret = "false" THEN << Continue(o.w.exit_val) >> ELSE <<>>,
                  o.why),
              "recv", a)
    /\ ev' = [Ev("spawn_child", line, o.ret, o.forked, o.job, o.pgid)
               EXCEPT !.pipe = o.pipe, !.order = o.order]
    /\ UNCHANGED sig_pending

\* Worker::spawn takes a Cmd: parse_cmd, built_in_cmd, and spawn_child when
\* built_in_cmd returned false. run_fg's usage branch sends first and returns
\* false, so spawn_child runs once that send has been received.
WorkerRecvCmd ==
  /\ Alive /\ worker_pc = "recv" /\ worker_q # <<>> /\ Head(worker_q).type = "Cmd"
  /\ LET line == Head(worker_q).line
         cmd  == parse_cmd(line)
     IN  /\ worker_q' = Tail(worker_q)
         /\ cur' = line
         /\ pre' = Tables(Self)
         /\ IF Len(cmd) = 0
            THEN /\ Finish(Res(Self, tty_fg, <<>>, "built_in_cmd: cmd[0]"), "recv", 0)
                 /\ ev' = Ev("built_in_cmd", line, "panic", {}, None, None)
                 /\ UNCHANGED << os_procs, sig_pending >>
            ELSE IF Len(cmd) = 1 /\ cmd[1].cmd = "exit"
            THEN /\ Finish(run_exit(Self, cmd[1].args, tty_fg), "recv", 0)
                 /\ ev' = Ev("run_exit", line, "true", {}, None, None)
                 /\ UNCHANGED << os_procs, sig_pending >>
            ELSE IF Len(cmd) = 1 /\ cmd[1].cmd = "fg"
            THEN LET f == run_fg(Self, cmd[1].args, tty_fg, os_procs)
                 IN  /\ Finish(f.res, IF f.ret THEN "recv" ELSE "spawn", 0)
                     /\ os_procs' = f.procs
                     /\ sig_pending' = IF f.procs # os_procs
                                       THEN sig_pending \cup {"SIGCHLD"}
                                       ELSE sig_pending
                     /\ ev' = Ev("run_fg", line, IF f.ret THEN "true" ELSE "false",
                                 {}, None, f.res.w.fg)
            ELSE SpawnChild(line, cmd, 0)
  /\ UNCHANGED << ShellVars >>

\* The worker after run_fg returned false and its Continue was received.
WorkerSpawn ==
  /\ Alive /\ worker_pc = "spawn"
  /\ SpawnChild(cur, parse_cmd(cur), auths)
  /\ UNCHANGED << worker_q, cur, pre, ShellVars >>

\* Worker::spawn takes a Signal: SIGCHLD starts wait_child, others are ignored.
WorkerRecvSignal ==
  /\ Alive /\ worker_pc = "recv" /\ worker_q # <<>> /\ Head(worker_q).type = "Signal"
  /\ worker_q' = Tail(worker_q)
  /\ worker_pc' = IF Head(worker_q).sig = "SIGCHLD" THEN "reap" ELSE "recv"
  /\ ev' = Ev("signal", NoLine, Head(worker_q).sig, {}, None, None)
  /\ UNCHANGED << WorkerVars, tty_fg, os_procs, sig_pending, out_msg, cont, cur,
                  panic, ShellVars, auths, pre >>

\* One turn of wait_child's loop: waitpid(-1, WUNTRACED|WNOHANG|WCONTINUED)
\* reports one child with a status change, which is handled; with none to
\* report the loop returns.
WaitChild ==
  /\ Alive /\ worker_pc = "reap"
  /\ LET pend == {p \in DOMAIN os_procs : os_procs[p].pend # "none"}
     IN  IF pend = {}
         THEN /\ worker_pc' = "recv"
              /\ ev' = Ev("wait_child", NoLine, "return", {}, None, None)
              /\ UNCHANGED << WorkerVars, tty_fg, os_procs, out_msg, cont, panic, auths >>
         ELSE \E p \in pend :
                LET k  == os_procs[p].pend
                    w0 == [Self EXCEPT !.exit_val = os_procs[p].code]
                    r  == CASE k = "exited"    -> process_term(w0, p, tty_fg)
                            [] k = "signaled"  -> Res(Self, tty_fg, <<>>, "")
                            [] k = "stopped"   -> process_stop(Self, p, tty_fg)
                            [] k = "continued" -> process_continue(Self, p, tty_fg)
                IN  /\ os_procs' = IF k \in {"exited", "signaled"}
                                   THEN MapDel(os_procs, p)
                                   ELSE [os_procs EXCEPT ![p].pend = "none"]
                    /\ Finish(r, "reap", auths)
                    /\ ev' = EvWait(k, p)
  /\ UNCHANGED << sig_pending, worker_q, cur, pre, ShellVars >>

WorkerStep == WorkerRecvCmd \/ WorkerSpawn \/ WorkerRecvSignal \/ WaitChild

Next ==
  \/ ShellSubmit
  \/ ShellEof
  \/ Rendezvous
  \/ ShellDisconnected
  \/ SigForward
  \/ UserInterrupt
  \/ ChildExit
  \/ ChildKilled
  \/ ChildStop
  \/ ChildContinue
  \/ WorkerRecvCmd
  \/ WorkerSpawn
  \/ WorkerRecvSignal
  \/ WaitChild

Spec == Init /\ [][Next]_vars

\* The threads are scheduled: a worker step, a meeting on the channel, a
\* failed recv or a forwarding that stays possible is eventually taken. What
\* the user and the children do is not forced.
FairSpec ==
  /\ Spec
  /\ WF_vars(WorkerStep)
  /\ WF_vars(Rendezvous)
  /\ WF_vars(ShellDisconnected)
  /\ WF_vars(SigForward)

\* ------------------------------------------------ the job table on its own
\* get_new_job_id is a function of the job table alone. Here the table goes
\* through every sequence of creations (the id from get_new_job_id, inserted
\* as insert_job does) and removals (as remove_job does), apart from the
\* rest of the shell.
JobPgids == 1..(MaxJobId + 1)

NotJobTable == << exit_val, fg, pgid_to_pids, pid_to_info, tty_fg, os_procs,
                  sig_pending, worker_q, worker_pc, out_msg, cont, cur, panic,
                  shell_pc, prev, shell_exit, nlines, auths, pre >>

JobCreate ==
  /\ get_new_job_id(jobs) # None
  /\ \E g \in JobPgids \ {jobs[j].pgid : j \in DOMAIN jobs} :
       /\ jobs' = MapPut(jobs, get_new_job_id(jobs), [pgid |-> g, line |-> <<"echo", "hi">>])
       /\ ev' = Ev("job_create", <<"echo", "hi">>, "true", {g}, get_new_job_id(jobs), g)
  /\ UNCHANGED NotJobTable

JobRemove ==
  /\ \E j \in DOMAIN jobs :
       /\ jobs' = MapDel(jobs, j)
       /\ ev' = Ev("job_remove", jobs[j].line, "", {}, j, jobs[j].pgid)
  /\ UNCHANGED NotJobTable

NextJobId == JobCreate \/ JobRemove

SpecJobId == Init /\ [][NextJobId]_vars

\* ------------------------------------------------------------------ claims
HasCmd(q) == \E i \in 1..Len(q) : q[i].type = "Cmd"

\* The worker took a line and has not yet gone back to worker_rx for it.
HandlingLine == worker_pc = "spawn" \/ (worker_pc = "send" /\ cont # "reap")

\* Every stage of the last spawn_child was forked.
AllForked ==
  /\ ev.op = "spawn_child"
  /\ ev.pids # {}
  /\ Cardinality(ev.pids) = Len(parse_cmd(ev.line))

Members == UNION {pgid_to_pids[g].pids : g \in DOMAIN pgid_to_pids}

\* C1: a line is submitted only once the Engine has authorized the line
\* before it, and the Engine sends at most one Continue/Quit for a line: no
\* line waits in the worker's channel while the worker still handles an
\* earlier one, and no line draws a second authorization.
C1_OneLineInFlight ==
  /\ auths <= 1
  /\ HasCmd(worker_q) => ~HandlingLine

\* C2: after a spawn_child in which every stage was forked, the job, its
\* group and all member processes are recorded, the new group is the
\* foreground pointer and the terminal's foreground group, and no assertion
\* of insert_job failed.
C2_SpawnBookkeeping ==
  AllForked =>
    /\ panic = ""
    /\ ev.ret = "true"
    /\ ev.job \in DOMAIN jobs
    /\ jobs[ev.job].pgid = ev.pgid
    /\ ev.pgid \in DOMAIN pgid_to_pids
    /\ pgid_to_pids[ev.pgid] = [job |-> ev.job, pids |-> ev.pids]
    /\ \A p \in ev.pids : p \in DOMAIN pid_to_info /\ pid_to_info[p].pgid = ev.pgid
    /\ fg = ev.pgid
    /\ tty_fg = ev.pgid

\* C3: whenever a job is created, its id is not in use and every smaller
\* non-negative id is.
C3_SmallestFreeId ==
  [][ (ev' # ev /\ ev'.op \in {"job_create", "spawn_child"} /\ ev'.pgid # None)
        => /\ ev'.job \notin DOMAIN jobs
           /\ \A k \in 0..(ev'.job - 1) : k \in DOMAIN jobs ]_vars

\* C3 witness: id 0 is handed out again while job 1 is still tracked.
C3_Reused == ev.op = "job_create" /\ ev.job = 0 /\ 1 \in DOMAIN jobs

\* C4: a single external command launched while no job is tracked leaves
\* exactly one job whose group holds its one process and is foreground; and
\* when the one process of the foreground job is reported exited with status
\* 0 the job is gone, the shell is foreground again and Continue(0) is sent.
C4_SingleCommand ==
  /\ (AllForked /\ Len(parse_cmd(ev.line)) = 1 /\ DOMAIN pre.jobs = {})
       => /\ panic = ""
          /\ DOMAIN jobs = {ev.job}
          /\ DOMAIN pgid_to_pids = {ev.pgid}
          /\ pgid_to_pids[ev.pgid].pids = ev.pids
          /\ Cardinality(ev.pids) = 1
          /\ fg = ev.pgid
          /\ tty_fg = ev.pgid
  /\ (ev.op = "wait_child" /\ ev.ret = "exited" /\ ev.code = 0
        /\ ev.wasfg /\ ev.members = ev.pids)
       => /\ ev.job \notin DOMAIN jobs
          /\ fg = None
          /\ tty_fg = ShellPgid
          /\ worker_pc = "send"
          /\ out_msg = Continue(0)

\* C5: after a 2-stage launch both processes are members of the group made
\* by stage 1; an exit report for one member of a group of two leaves the job
\* and the group tracked with the other member; a job is dropped only with no
\* member left.
C5_PipelineGroup ==
  /\ (AllForked /\ Cardinality(ev.pids) = 2)
       => /\ ev.pgid \in ev.pids
          /\ \A p \in ev.pids : os_procs[p].pgid = ev.pgid
          /\ ev.pgid \in DOMAIN pgid_to_pids
          /\ pgid_to_pids[ev.pgid].pids = ev.pids
          /\ ev.job \in DOMAIN jobs
  /\ (ev.op = "wait_child" /\ ev.ret = "exited" /\ ev.job # None
        /\ Cardinality(ev.members) = 2)
       => /\ ev.job \in DOMAIN jobs
          /\ ev.pgid \in DOMAIN pgid_to_pids
          /\ pgid_to_pids[ev.pgid].pids = ev.members \ ev.pids

\* C6: a job is in the job table exactly when its group is tracked with a
\* non-empty member set.
C6_JobIffGroup ==
  /\ \A j \in DOMAIN jobs :
       /\ jobs[j].pgid \in DOMAIN pgid_to_pids
       /\ pgid_to_pids[jobs[j].pgid].job = j
       /\ pgid_to_pids[jobs[j].pgid].pids # {}
  /\ \A g \in DOMAIN pgid_to_pids :
       /\ pgid_to_pids[g].pids # {}
       /\ pgid_to_pids[g].job \in DOMAIN jobs
       /\ jobs[pgid_to_pids[g].job].pgid = g

\* C7: the pids with a process record are the members of the tracked groups,
\* and a pid whose exit was just handled has no record.
C7_RecordsAreMembers ==
  /\ DOMAIN pid_to_info = Members
  /\ (ev.op = "wait_child" /\ ev.ret = "exited")
       => \A p \in ev.pids : p \notin DOMAIN pid_to_info

\* Every process of the foreground group is stopped.
FgAllStopped ==
  /\ fg # None
  /\ GroupExists(os_procs, fg)
  /\ \A p \in DOMAIN os_procs : os_procs[p].pgid = fg => os_procs[p].st = "stop"

\* C8: once every member of the foreground group is stopped, the Engine
\* comes to set the foreground pointer to none and hand the terminal back to
\* the shell (unless a member runs again or ends first). Handling such a stop
\* report keeps the job, group and records and sends Continue; a stop report
\* that leaves a member Running changes that process's recorded state only.
C8_StopReturnsTerminal ==
  /\ FgAllStopped ~> ((fg = None /\ tty_fg = ShellPgid) \/ ~FgAllStopped)
  /\ []((ev.op = "wait_child" /\ ev.ret = "stopped" /\ ev.wasfg /\ panic = "")
          => /\ ev.job \in DOMAIN jobs
             /\ ev.pgid \in DOMAIN pgid_to_pids
             /\ pgid_to_pids[ev.pgid].pids = ev.members
             /\ ev.members \subseteq DOMAIN pid_to_info
             /\ \A p \in ev.pids : pid_to_info[p].state = "Stop"
             /\ IF \A p \in ev.members : pid_to_info[p].state = "Stop"
                THEN fg = None /\ tty_fg = ShellPgid /\ worker_pc = "send"
                     /\ out_msg.type = "Continue"
                ELSE fg = ev.pgid /\ worker_pc = "reap")

\* The line `fg <n>` with exactly one argument, a number.
IsFgN(line) ==
  /\ Len(line) = 2
  /\ line[1] = "fg"
  /\ ParseUsize(line[2]) # None

\* C9: `fg <n>` naming a tracked job, once submitted, comes to have that
\* job's group as foreground pointer and as the terminal's foreground group;
\* handling it resumes every member and sends no authorization.
C9_FgResumes ==
  /\ \A line \in {l \in Lines : IsFgN(l)} :
       (/\ HasCmd(worker_q)
        /\ Head(worker_q) = CmdMsg(line)
        /\ ParseUsize(line[2]) \in DOMAIN jobs)
       ~> (\E j \in DOMAIN jobs : j = ParseUsize(line[2]) /\ fg = jobs[j].pgid
                                   /\ tty_fg = jobs[j].pgid)
  /\ []((ev.op = "run_fg" /\ IsFgN(ev.line) /\ ParseUsize(ev.line[2]) \in DOMAIN pre.jobs
           /\ panic = "")
          => /\ fg = pre.jobs[ParseUsize(ev.line[2])].pgid
             /\ tty_fg = fg
             /\ \A p \in DOMAIN os_procs : os_procs[p].pgid = fg => os_procs[p].st # "stop"
             /\ auths = 0
             /\ worker_pc # "send")

\* C10: `fg <n>` with no job n tracked changes no table and not the
\* foreground pointer, spawns nothing, and draws exactly one authorization,
\* a Continue with a non-zero status.
C10_FgUnknownJob ==
  (/\ IsFgN(cur)
   /\ ParseUsize(cur[2]) \notin DOMAIN pre.jobs
   /\ ev.line = cur
   /\ ev.op \in {"run_fg", "spawn_child"})
  => /\ ev.op = "run_fg"
     /\ Tables(Self) = pre
     /\ auths = 1
     /\ exit_val # 0
     /\ worker_pc = "send" => out_msg = Continue(exit_val)

\* The line is the built-in `exit`, alone on its line, with or without
\* arguments.
IsExit(line) ==
  /\ Len(parse_cmd(line)) = 1
  /\ parse_cmd(line)[1].cmd = "exit"

\* C11: `exit`, with or without an argument, submitted while a job is
\* tracked, comes to be answered with a Continue of non-zero status; handling
\* it never yields Quit and leaves the job table, the group table and the
\* process records as they were.
C11_ExitWithJobs ==
  /\ \A line \in {l \in Lines : IsExit(l)} :
       (/\ HasCmd(worker_q)
        /\ Head(worker_q) = CmdMsg(line)
        /\ DOMAIN jobs # {})
       ~> (worker_pc = "send" /\ out_msg.type = "Continue" /\ out_msg.n # 0)
  /\ []((ev.op = "run_exit" /\ DOMAIN pre.jobs # {} /\ worker_pc = "send")
          => /\ out_msg.type = "Continue"
             /\ out_msg.n # 0
             /\ jobs = pre.jobs
             /\ pgid_to_pids = pre.pgid_to_pids
             /\ pid_to_info = pre.pid_to_info)

\* C12: with no job tracked, `exit` alone is answered with Quit of the last
\* exit value, `exit <n>` with Quit(n), and `exit <x>` with x not an integer
\* with a Continue.
C12_ExitNoJobs ==
  (ev.op = "run_exit" /\ DOMAIN pre.jobs = {} /\ worker_pc = "send")
  => /\ Len(ev.line) = 1 => out_msg = Quit(exit_val)
     /\ (Len(ev.line) = 2 /\ ParseI32(ev.line[2]) # None)
          => out_msg = Quit(ParseI32(ev.line[2]))
     /\ (Len(ev.line) = 2 /\ ParseI32(ev.line[2]) = None)
          => out_msg.type = "Continue"

\* C13: a line of more than two stages (`echo hello | less | cat` is three)
\* is rejected by spawn_child: it returns false, forks no process, leaves
\* the job table, the group table, the process records and the foreground
\* pointer as they were, does not end the worker, and exactly one
\* authorization, a Continue, is sent for the line.
C13_ThreeStagesRejected ==
  /\ Len(parse_cmd(<<"echo", "hello", "|", "less", "|", "cat">>)) = 3
  /\ (ev.op = "spawn_child" /\ Len(parse_cmd(ev.line)) > 2)
       => /\ ev.ret = "false"
          /\ ev.pids = {}
          /\ Tables(Self) = pre
          /\ panic = ""
          /\ auths = 1
          /\ worker_pc = "send" => out_msg = Continue(exit_val)

\* C13 witness: the three-stage line was handled and its Continue is being
\* sent.
C13_Rejected ==
  /\ ev.op = "spawn_child"
  /\ Len(parse_cmd(ev.line)) = 3
  /\ worker_pc = "send"
  /\ out_msg.type = "Continue"

\* The line has two stages and the command of one of them is a built-in.
BuiltInPipeline(line) ==
  /\ Len(parse_cmd(line)) = 2
  /\ \E i \in 1..2 : parse_cmd(line)[i].cmd \in {"exit", "fg"}

\* C14: a 2-stage pipeline with a built-in (`exit` or `fg`) as one of its
\* stages is rejected: no process is forked for it, no job, group or record
\* is made, the worker goes on, and a Continue is sent for the line.
C14_BuiltInPipelineRejected ==
  (BuiltInPipeline(ev.line) /\ ev.op \in {"built_in_cmd", "spawn_child"})
  => /\ ev.pids = {}
     /\ Tables(Self) = pre
     /\ panic = ""
     /\ auths = 1
     /\ worker_pc = "send" => out_msg.type = "Continue"

\* C15: a line that launched nothing (empty stages as in `|`, a fork that
\* failed, too many stages, a built-in's bad argument or unknown job) does
\* not end the worker thread: after the step that handled it the worker has
\* not panicked and is sending its answer or ready for later messages.
C15_NoLineAborts ==
  (ev.line # NoLine /\ ev.pids = {})
  => /\ panic = ""
     /\ worker_pc \in {"send", "spawn", "recv", "reap"}

\* The group the foreground pointer stands for: the shell's own when it is
\* none.
FgGroup(f) == IF f = None THEN ShellPgid ELSE f

\* C16: the terminal's foreground group is the group of the foreground
\* pointer, the shell's own group when the pointer is none; and no step
\* changes the pointer without handing the terminal to the new pointer's
\* group.
C16_TerminalFollowsFg ==
  /\ [](tty_fg = FgGroup(fg))
  /\ [][fg' # fg => tty_fg' = FgGroup(fg')]_vars

\* C17: however spawn_child ends for a 2-stage line that got as far as
\* pipe() (both forks done, the first fork failed, the second fork failed,
\* or a panic on the way), the worker has closed the read end once and the
\* write end once by then; with no pipe made it closes nothing.
C17_PipeClosedOnce ==
  ev.op = "spawn_child"
  => /\ (Len(parse_cmd(ev.line)) = 2 /\ ev.job # None)
          => (ev.pipe.made /\ ev.pipe.rd = 1 /\ ev.pipe.wr = 1)
     /\ ~ev.pipe.made => (ev.pipe.rd = 0 /\ ev.pipe.wr = 0)

\* C17 witness: the second fork of a 2-stage line failed, spawn_child has
\* returned false and the Continue is being sent, both ends closed once.
C17_ClosedAfterStage2Failure ==
  /\ ev.op = "spawn_child"
  /\ ev.ret = "false"
  /\ Len(parse_cmd(ev.line)) = 2
  /\ Cardinality(ev.pids) = 1
  /\ ev.pipe = [made |-> TRUE, rd |-> 1, wr |-> 1]
  /\ worker_pc = "send"

\* C18: in whatever order the parent and the child run after fork, every
\* process spawn_child created is in its target group (its own for stage 1,
\* the group of stage 1 for stage 2) when spawn_child ends, and no setpgid
\* failed: the worker did not panic in fork_exec.
C18_GroupAttachment ==
  ev.op = "spawn_child"
  => /\ \A p \in ev.pids : os_procs[p].pgid = ev.pgid
     /\ ev.pgid \in ev.pids \/ ev.pids = {}
     /\ ev.order = <<>>
     /\ panic # "fork_exec: setpgid"

\* The foreground pointer names a group with no live process: each of its
\* processes has exited or was killed (reaped or not).
FgAllTerminated ==
  /\ fg # None
  /\ \A p \in DOMAIN os_procs : os_procs[p].pgid = fg => os_procs[p].st = "zombie"

\* C19: once every process of the foreground job has terminated, by exit
\* or by a signal, the Engine comes to set the foreground pointer to none,
\* hand the terminal back to the shell and track no job without a live
\* process; and handling the end (exit or signal) of the last member of the
\* foreground group removes the job and sends Continue.
C19_FgJobEnds ==
  /\ FgAllTerminated
       ~> (/\ fg = None
           /\ tty_fg = ShellPgid
           /\ \A j \in DOMAIN jobs :
                \E p \in DOMAIN os_procs : /\ os_procs[p].pgid = jobs[j].pgid
                                           /\ os_procs[p].st # "zombie")
  /\ []((ev.op = "wait_child" /\ ev.ret \in {"exited", "signaled"}
           /\ ev.wasfg /\ ev.members = ev.pids /\ panic = "")
          => /\ ev.job \notin DOMAIN jobs
             /\ fg = None
             /\ tty_fg = ShellPgid
             /\ worker_pc = "send"
             /\ out_msg.type = "Continue")

\* No child has a status change that waitpid has yet to report.
NothingPending == \A p \in DOMAIN os_procs : os_procs[p].pend = "none"

\* C20: a reap cycle (wait_child, started by one SIGCHLD however many
\* changes it stands for) ends in no other way than by returning to the
\* message loop with no status change left to report: until then each of its
\* turns handles one change and goes on, at most pausing to send a Continue.
C20_ReapCycle ==
  [][worker_pc = "reap"
       => \/ worker_pc' = "reap"
          \/ worker_pc' = "send" /\ cont' = "reap"
          \/ worker_pc' = "recv" /\ NothingPending']_vars

\* C21: a turn of wait_child that is told of an exit, a stop or a continue
\* of a child with no process record does not end the worker thread and
\* leaves the job table, the group table, the process records and the
\* foreground pointer as they were.
C21_UntrackedChildReport ==
  [][(/\ worker_pc = "reap"
      /\ ev' # ev
      /\ ev'.op = "wait_child"
      /\ ev'.ret \in {"exited", "stopped", "continued"}
      /\ \A p \in ev'.pids : p \notin DOMAIN pid_to_info)
       => /\ worker_pc' # "dead"
          /\ panic' = ""
          /\ Tables(Self)' = Tables(Self)]_vars

\* --------------------------------------------- a foreground job under way
\* The first line, a 2-stage pipeline, with both forks done, as insert_job
\* and spawn_child leave the worker, the children and the terminal when the
\* assertion at line 480 is taken not to end the thread: the job and the
\* records as insert_job has them at that assertion, then the group (line
\* 481) and the terminal (line 309). From here the handling of a tracked
\* job's reports (manage_job, run_fg) can be followed.
Launched ==
  LET line == <<"echo", "hi", "|", "cat">>
      w0   == [exit_val |-> 0, fg |-> None, jobs |-> EmptyMap,
               pgid_to_pids |-> EmptyMap, pid_to_info |-> EmptyMap]
  IN  {[o EXCEPT !.w.pgid_to_pids = MapPut(@, o.pgid, [job |-> o.job, pids |-> o.forked]),
                 !.tty = o.pgid] :
         o \in {x \in SpawnOutcomes(w0, EmptyMap, ShellPgid, line, parse_cmd(line)) :
                  x.why = "insert_job: assert"}}

InitFg ==
  \E o \in Launched :
    /\ exit_val = o.w.exit_val
    /\ fg = o.w.fg
    /\ jobs = o.w.jobs
    /\ pgid_to_pids = o.w.pgid_to_pids
    /\ pid_to_info = o.w.pid_to_info
    /\ tty_fg = o.tty
    /\ os_procs = o.procs
    /\ sig_pending = {}
    /\ worker_q = <<>>
    /\ worker_pc = "recv"
    /\ out_msg = NoMsg
    /\ cont = "recv"
    /\ cur = <<"echo", "hi", "|", "cat">>
    /\ panic = ""
    /\ shell_pc = "wait"
    /\ prev = 0
    /\ shell_exit = None
    /\ nlines = 1
    /\ auths = 0
    /\ pre = [jobs |-> EmptyMap, pgid_to_pids |-> EmptyMap, pid_to_info |-> EmptyMap,
              fg |-> None]
    /\ ev = [Ev("spawn_child", cur, "true", o.forked, o.job, o.pgid)
             EXCEPT !.pipe = o.pipe]

\* As Next, but no child is continued from outside the shell: a stopped
\* child runs again only through fg's SIGCONT.
NextFg ==
  \/ ShellSubmit
  \/ ShellEof
  \/ Rendezvous
  \/ ShellDisconnected
  \/ SigForward
  \/ UserInterrupt
  \/ ChildExit
  \/ ChildKilled
  \/ ChildStop
  \/ WorkerRecvCmd
  \/ WorkerSpawn
  \/ WorkerRecvSignal
  \/ WaitChild

SpecFg == InitFg /\ [][NextFg]_vars

====
